---- MODULE Spec2Model ----
(***************************************************************************)
(* Chunked transcription pipeline of the YouTube transcription service     *)
(* (src/server.ts): getAudioDuration, splitAudioFile,                      *)
(* transcribeAudioChunksParallel and processSingleVideo.                   *)
(*                                                                         *)
(* Units. Source durations and chunk windows are whole seconds (the        *)
(* code's chunkDurationSeconds, maxDuration). Times inside an engine       *)
(* response (segment start/end, duration) are milliseconds, so that        *)
(* Math.floor(seconds * 100) is a real rounding: SeekOf.                   *)
(***************************************************************************)
EXTENDS Integers, Sequences, FiniteSets, TLC

\* An optional value: None is JavaScript's undefined, Some(v) a value.
None == <<>>
Some(v) == <<v>>
Val(x) == x[1]

Max(a, b) == IF a >= b THEN a ELSE b

\* Math.ceil(a / b) for a >= 0, b > 0.
CeilDiv(a, b) == (a + b - 1) \div b

(***************************************************************************)
(* String.prototype.includes, on strings written as tuples of characters.  *)
(***************************************************************************)
Includes(s, sub) ==
  \E k \in 0..(Len(s) - Len(sub)) : SubSeq(s, k + 1, k + Len(sub)) = sub

Gpt4o == <<"g", "p", "t", "-", "4", "o">>
Gpt4oTranscribe == Gpt4o \o <<"-", "t", "r", "a", "n", "s", "c", "r", "i", "b", "e">>
Whisper1 == <<"w", "h", "i", "s", "p", "e", "r", "-", "1">>

IsGPT4oModel(transcriptionModel) == Includes(transcriptionModel, Gpt4o)

\* const maxDuration = isGPT4oModel ? 1400 : 3600
Gpt4oLimit == 1400
WhisperLimit == 3600
MaxDurationOf(transcriptionModel) ==
  IF IsGPT4oModel(transcriptionModel) THEN Gpt4oLimit ELSE WhisperLimit

(***************************************************************************)
(* splitAudioFile: the chunk plan. One entry per ffmpeg command:           *)
(* -ss startTime -t chunkDurationSeconds, written to <jobId>_chunk_<i>.    *)
(***************************************************************************)
NumChunksFloor(totalDuration, chunkDurationSeconds) ==
  totalDuration \div chunkDurationSeconds
NumChunks(totalDuration, chunkDurationSeconds) ==
  CeilDiv(totalDuration, chunkDurationSeconds)

ChunkPlan(jobId, totalDuration, chunkDurationSeconds) ==
  [k \in 1..NumChunks(totalDuration, chunkDurationSeconds) |->
     [ i         |-> k - 1,
       startTime |-> (k - 1) * chunkDurationSeconds,
       t         |-> chunkDurationSeconds,
       chunkPath |-> <<jobId, k - 1>> ]]

(***************************************************************************)
(* The transcription engine's responses (opaque collaborator). A response  *)
(* is what openai.audio.transcriptions.create resolves to: text, and,      *)
(* depending on the response format, segments, language, duration, usage.  *)
(* A field the engine leaves out is None. Text is a tuple of               *)
(* characters. Segments are in chunk-local time, ordered by start.         *)
(***************************************************************************)
Seg(id, seek, start, end, text) ==
  [id |-> id, seek |-> seek, start |-> start, end |-> end, text |-> text]

DurationUsage(seconds) ==
  [type |-> "duration", seconds |-> Some(seconds), total_tokens |-> None]
TokenUsage(tokens) ==
  [type |-> "tokens", seconds |-> None, total_tokens |-> Some(tokens)]

\* verbose_json, two segments decoded in one 30 s window (engine seek 0).
RespTwoSegs ==
  [ text     |-> <<" ", "a", " ", "b">>,
    segments |-> Some(<< Seg(0, 0, 0, 1250, "a"), Seg(1, 0, 1250, 2999, "b") >>),
    language |-> Some("english"),
    duration |-> Some(3000),
    usage    |-> Some(DurationUsage(3)) ]

\* verbose_json, three segments, one of zero length, filling a 1400 s window.
RespThreeSegs ==
  [ text     |-> <<"b", "\n">>,
    segments |-> Some(<< Seg(0, 0, 0, 0, "b"), Seg(1, 0, 0, 505, "b"),
                         Seg(2, 3000, 31505, 1399995, "a") >>),
    language |-> Some("french"),
    duration |-> Some(1400000),
    usage    |-> Some(DurationUsage(1400)) ]

\* json (gpt-4o models): text and token usage only.
RespJson ==
  [ text     |-> <<"a", " ", "b">>,
    segments |-> None,
    language |-> None,
    duration |-> None,
    usage    |-> Some(TokenUsage(7)) ]

\* silence: whitespace text, no segment, no usage.
RespSilence ==
  [ text     |-> <<" ">>,
    segments |-> Some(<<>>),
    language |-> Some("english"),
    duration |-> Some(0),
    usage    |-> None ]

\* verbose_json whose one segment starts its window: seek = floor(start*100).
RespPlain ==
  [ text     |-> <<"a">>,
    segments |-> Some(<< Seg(0, 0, 0, 1000, "a") >>),
    language |-> Some("english"),
    duration |-> Some(1000),
    usage    |-> Some(DurationUsage(1)) ]

Responses == {RespTwoSegs, RespThreeSegs, RespJson, RespSilence, RespPlain}

(***************************************************************************)
(* String.prototype.trim on a tuple of characters.                         *)
(***************************************************************************)
IsSpace(c) == c \in {" ", "\n", "\t"}

RECURSIVE TrimStart(_)
TrimStart(s) ==
  IF s # <<>> /\ IsSpace(Head(s)) THEN TrimStart(Tail(s)) ELSE s

RECURSIVE TrimEnd(_)
TrimEnd(s) ==
  IF s # <<>> /\ IsSpace(s[Len(s)]) THEN TrimEnd(SubSeq(s, 1, Len(s) - 1)) ELSE s

Trim(s) == TrimEnd(TrimStart(s))

(***************************************************************************)
(* transcribeAudioChunksParallel, the value each chunk's promise resolves  *)
(* to (lines 177-185). chunkDurationSeconds is in seconds; the response's  *)
(* times are in milliseconds.                                              *)
(***************************************************************************)
TimeOffsetOneBased(index, chunkDurationSeconds) ==
  (index + 1) * chunkDurationSeconds * 1000
TimeOffset(index, chunkDurationSeconds) == index * chunkDurationSeconds * 1000

ChunkResult(index, transcription, chunkDurationSeconds) ==
  [ index      |-> index,
    text       |-> transcription.text,
    segments   |-> IF transcription.segments = None
                   THEN <<>> ELSE Val(transcription.segments),
    language   |-> transcription.language,
    duration   |-> IF transcription.duration \in {None, Some(0)}
                   THEN chunkDurationSeconds * 1000
                   ELSE Val(transcription.duration),
    usage      |-> transcription.usage,
    timeOffset |-> TimeOffset(index, chunkDurationSeconds) ]

\* results.sort((a, b) => a.index - b.index), as an insertion sort.
RECURSIVE InsertByIndex(_, _)
InsertByIndex(sorted, r) ==
  IF sorted = <<>> THEN <<r>>
  ELSE IF r.index < Head(sorted).index THEN <<r>> \o sorted
  ELSE <<Head(sorted)>> \o InsertByIndex(Tail(sorted), r)

RECURSIVE SortByIndexDescending(_)
SortByIndexDescending(results) ==
  IF results = <<>> THEN <<>>
  ELSE LET m == CHOOSE k \in 1..Len(results) :
                  \A l \in 1..Len(results) : results[l].index <= results[k].index
       IN  <<results[m]>>
           \o SortByIndexDescending(
                [k \in 1..(Len(results) - 1) |->
                   IF k < m THEN results[k] ELSE results[k + 1]])

RECURSIVE SortByIndex(_)
SortByIndex(results) ==
  IF results = <<>> THEN <<>>
  ELSE InsertByIndex(SortByIndex(SubSeq(results, 1, Len(results) - 1)),
                     results[Len(results)])

\* Math.floor((segment.start + result.timeOffset) * 100), times in ms.
SeekShifted(segment, timeOffset) == segment.seek + (timeOffset * 100) \div 1000
SeekOf(segment, timeOffset) == ((segment.start + timeOffset) * 100) \div 1000

\* result.segments.map(...): ids from segmentIdCounter, times re-based.
AdjustSegmentsKeepIds(segments, timeOffset, segmentIdCounter) ==
  [p \in 1..Len(segments) |->
     [segments[p] EXCEPT !.start = segments[p].start + timeOffset,
                         !.end   = segments[p].end + timeOffset,
                         !.seek  = SeekOf(segments[p], timeOffset)]]
AdjustSegments(segments, timeOffset, segmentIdCounter) ==
  [p \in 1..Len(segments) |->
     [segments[p] EXCEPT !.id    = segmentIdCounter + p - 1,
                         !.start = segments[p].start + timeOffset,
                         !.end   = segments[p].end + timeOffset,
                         !.seek  = SeekOf(segments[p], timeOffset)]]

\* the usage quantity added to totalUsage.seconds (lines 224-229).
UsageQuantitySecondsOnly(usage) ==
  IF usage = None \/ Val(usage).seconds \in {None, Some(0)} THEN 0
  ELSE Val(Val(usage).seconds)
UsageQuantity(usage) ==
  IF usage = None THEN 0
  ELSE IF Val(usage).seconds \notin {None, Some(0)} THEN Val(Val(usage).seconds)
  ELSE IF Val(usage).total_tokens \notin {None, Some(0)}
       THEN Val(Val(usage).total_tokens)
  ELSE 0

\* one iteration of results.forEach (lines 205-232).
MergeStep(acc, result) ==
  [ mergedText       |-> (IF acc.mergedText # <<>>
                          THEN acc.mergedText \o <<" ">> ELSE <<>>)
                         \o Trim(result.text),
    mergedSegments   |-> acc.mergedSegments
                         \o AdjustSegments(result.segments, result.timeOffset,
                                           acc.segmentIdCounter),
    segmentIdCounter |-> acc.segmentIdCounter + Len(result.segments),
    totalDuration    |-> Max(acc.totalDuration,
                             result.timeOffset + result.duration),
    seconds          |-> acc.seconds + UsageQuantity(result.usage) ]

RECURSIVE MergeFold(_, _)
MergeFold(acc, results) ==
  IF results = <<>> THEN acc
  ELSE MergeFold(MergeStep(acc, Head(results)), Tail(results))

MergeInit ==
  [ mergedText |-> <<>>, mergedSegments |-> <<>>, segmentIdCounter |-> 0,
    totalDuration |-> 0, seconds |-> 0 ]

\* results[0]?.language || 'unknown' (line 250), results being sorted.
MergedLanguageOfLast(sorted) ==
  IF sorted = <<>> \/ sorted[Len(sorted)].language = None
  THEN Some("unknown") ELSE sorted[Len(sorted)].language
MergedLanguage(sorted) ==
  IF sorted = <<>> \/ sorted[1].language = None
  THEN Some("unknown") ELSE sorted[1].language

\* lines 189-254: sort, merge, and the returned transcript.
MergeResults(results) ==
  LET sorted == SortByIndex(results)
      acc    == MergeFold(MergeInit, sorted)
  IN  [ text            |-> acc.mergedText,
        segments        |-> Some(acc.mergedSegments),
        language        |-> MergedLanguage(sorted),
        duration        |-> Some(acc.totalDuration),
        usage           |-> Some(DurationUsage(acc.seconds)),
        chunksProcessed |-> Len(sorted) ]

\* the promises of chunkPaths.map, all fulfilled, then the merge.
TranscribeAndMerge(transcriptions, chunkDurationSeconds) ==
  MergeResults([k \in 1..Len(transcriptions) |->
                  ChunkResult(k - 1, transcriptions[k], chunkDurationSeconds)])

\* the Direct path's transcriptData (lines 434-441).
DirectTranscriptMerged(transcription) ==
  TranscribeAndMerge(<<transcription>>, Gpt4oLimit)
DirectTranscript(transcription) ==
  [ text            |-> transcription.text,
    segments        |-> transcription.segments,
    language        |-> transcription.language,
    duration        |-> transcription.duration,
    usage           |-> transcription.usage,
    chunksProcessed |-> 1 ]

(***************************************************************************)
(* The pipeline: processSingleVideo invocations running concurrently on    *)
(* one Node.js event loop. A job's pc is the await it is suspended at; an  *)
(* action is one callback of the event loop, run to its next await.        *)
(***************************************************************************)
\* const jobId = uuidv4(): one identifier per invocation.
Jobs == {"jobA", "jobB"}

\* transcriptionModel of the request.
Models == {Gpt4oTranscribe, Whisper1}

\* playing time of the downloaded MP3, in seconds.
SourceDurations == {1399, 1400, 2000, 3600}

\* the longest chunk plan of a run of the model.
MaxChunks == 2

\* the requests of the model: a model identifier and a source.
Requests ==
  {rq \in Models \X SourceDurations :
     NumChunks(rq[2], MaxDurationOf(rq[1])) <= MaxChunks}

\* what the engine answers to one call of a pipeline run.
PipelineResponses == {RespTwoSegs, RespThreeSegs, RespJson}

VARIABLES
  pc,                 \* job -> the await the invocation is suspended at
  request,            \* job -> None | Some(what the POST /transcribe body holds)
  transcriptionModel, \* job -> the request's model identifier
  sourceDuration,     \* job -> true playing time of the job's MP3
  duration,           \* job -> processSingleVideo's probed duration
  path,               \* job -> "none" | "Direct" | "Chunking"
  mp3,                \* job -> whether uploads/<jobId>.mp3 exists
  chunksDir,          \* whether the directory uploads/chunks exists
  files,              \* the chunk files in uploads/chunks: <<jobId, i>>
  foreignDeletes,     \* history: <<chunk file, job whose rmSync removed it>>
  splitWindow,        \* job -> chunkDurationSeconds given to splitAudioFile
  mergeWindow,        \* job -> ... given to transcribeAudioChunksParallel
  chunkPaths,         \* job -> the chunk plan of splitAudioFile
  ex,                 \* job -> state of each ffmpeg extraction
  tr,                 \* job -> state of each chunk transcription call
  trResponse,         \* job -> the engine's response to each call
  calls,              \* job -> engine calls issued: on the source, on chunks
  thrown,             \* job -> None | Some(message of the error caught at 526)
  transcriptData,     \* job -> None | Some(transcript)
  result,             \* job -> None | Some(response body)
  httpStatus,         \* job -> None | Some(status code of the HTTP response)
  record,             \* job -> None | Some(row of video_transcriptions)
  notified,           \* job -> the status notifications that have returned
  settled,            \* job -> history: chunk indices in order of fulfilment
  timer,              \* job -> the deferred removal of the MP3 (line 513)
  enrich,             \* job -> the deferred AI enrichment (lines 486-499)
  channel,            \* the processChannelVideos invocation of a request
                      \* for a channel
  faults,             \* the best-effort side channels that may fail in this
                      \* environment: "fs" (removals), "store" (record
                      \* store), "meta" (retrieval of the video's metadata)
  fnIn,               \* input of a function applied on its own
  fnOut               \* its output

pipeVars ==
  << pc, request, transcriptionModel, sourceDuration, duration, path, mp3,
     chunksDir, files, foreignDeletes, splitWindow, mergeWindow, chunkPaths,
     ex, tr, trResponse, calls, thrown, transcriptData, result, httpStatus,
     record, notified, settled, timer, enrich, channel, faults >>
fnVars == << fnIn, fnOut >>
vars == << pipeVars, channel, fnVars >>

\* no request for a channel has arrived.
NoChannel ==
  [ state              |-> "none",
    transcriptionModel |-> <<>>,
    totalVideos        |-> 0,
    i                  |-> 0,
    current            |-> None,
    started            |-> <<>>,
    jobIds             |-> <<>>,
    processedCount     |-> 0,
    failedCount        |-> 0,
    response           |-> None,
    httpStatus         |-> None ]

\* what only the arrival of a request sets.
inputVars == << request, transcriptionModel, sourceDuration, faults >>

InitPipeline ==
  /\ pc = [j \in Jobs |-> "idle"]
  /\ request = [j \in Jobs |-> None]
  /\ transcriptionModel = [j \in Jobs |-> <<>>]
  /\ sourceDuration = [j \in Jobs |-> 0]
  /\ duration = [j \in Jobs |-> 0]
  /\ path = [j \in Jobs |-> "none"]
  /\ mp3 = [j \in Jobs |-> FALSE]
  /\ chunksDir = FALSE
  /\ files = {}
  /\ foreignDeletes = {}
  /\ splitWindow = [j \in Jobs |-> 0]
  /\ mergeWindow = [j \in Jobs |-> 0]
  /\ chunkPaths = [j \in Jobs |-> <<>>]
  /\ ex = [j \in Jobs |-> <<>>]
  /\ tr = [j \in Jobs |-> <<>>]
  /\ trResponse = [j \in Jobs |-> <<>>]
  /\ calls = [j \in Jobs |-> [source |-> 0, chunks |-> 0]]
  /\ thrown = [j \in Jobs |-> None]
  /\ transcriptData = [j \in Jobs |-> None]
  /\ result = [j \in Jobs |-> None]
  /\ httpStatus = [j \in Jobs |-> None]
  /\ record = [j \in Jobs |-> None]
  /\ notified = [j \in Jobs |-> <<>>]
  /\ settled = [j \in Jobs |-> <<>>]
  /\ timer = [j \in Jobs |-> "none"]
  /\ enrich = [j \in Jobs |-> [state |-> "none", calls |-> <<>>]]
  /\ channel = NoChannel

\* the service with its side channels working.
Init == InitPipeline /\ faults = {} /\ fnIn = None /\ fnOut = None

\* the outcomes of a removal in the file system, of a call to the store.
FsOutcomes == IF "fs" \in faults THEN {TRUE, FALSE} ELSE {TRUE}
StoreOutcomes == IF "store" \in faults THEN {TRUE, FALSE} ELSE {TRUE}
MetaOutcomes == IF "meta" \in faults THEN {TRUE, FALSE} ELSE {TRUE}

\* the chunk indices of job j's plan (0-based, as in the code).
Chunks(j) == {k - 1 : k \in 1..Len(chunkPaths[j])}

\* the chunk files named in job j's chunkPaths that exist.
OwnFiles(j) == {f \in files : f[1] = j}

\* fs.rmSync(tempDir, {recursive: true, force: true}) called by job j while
\* the directory holds the files present; ok: the removal succeeds.
RmSyncTempDir(j, present, ok) ==
  /\ chunksDir' = (IF ok THEN FALSE ELSE chunksDir)
  /\ files' = IF ok THEN {} ELSE present
  /\ foreignDeletes' =
       IF ok
       THEN foreignDeletes \cup {<<f, j>> : f \in {g \in present : g[1] # j}}
       ELSE foreignDeletes

\* throw error (line 419): the error of the chunked path, whatever the
\* cleanup of lines 414-418 did.
RethrownCleanupError(error, cleanupOk) ==
  IF cleanupOk THEN error ELSE "EPERM: operation not permitted, rmdir"
Rethrown(error, cleanupOk) == error

\* the catch of lines 412-420, then the catch of line 526 up to its await.
CatchChunking(j, error) ==
  /\ \E ok \in FsOutcomes :
       /\ RmSyncTempDir(j, files, ok)
       /\ thrown' = [thrown EXCEPT ![j] = Some(Rethrown(error, ok))]
  /\ pc' = [pc EXCEPT ![j] = "failing"]

\* what a request body holds: whether youtubeUrl and userId are present.
Bodies == [youtubeUrl : BOOLEAN, userId : BOOLEAN]

\* the checks of POST /transcribe (lines 652-671): None when they pass.
ValidateKeyFirst(body, apiKey) ==
  IF ~apiKey
  THEN Some([status |-> 500, error |-> "OPENAI_API_KEY not configured"])
  ELSE IF ~body.youtubeUrl
  THEN Some([status |-> 400, error |-> "youtubeUrl is required"])
  ELSE IF ~body.userId
  THEN Some([status |-> 400, error |-> "userId is required"])
  ELSE None
Validate(body, apiKey) ==
  IF ~body.youtubeUrl
  THEN Some([status |-> 400, error |-> "youtubeUrl is required"])
  ELSE IF ~body.userId
  THEN Some([status |-> 400, error |-> "userId is required"])
  ELSE IF ~apiKey
  THEN Some([status |-> 500, error |-> "OPENAI_API_KEY not configured"])
  ELSE None

\* createInitialVideoRecord: the row inserted, None when the insert fails.
CreateInitialVideoRecordIngesting(created) ==
  IF created
  THEN Some([status |-> "Ingestion", error_message |-> None,
             openai_tokens_used |-> None])
  ELSE None
CreateInitialVideoRecord(created) ==
  IF created
  THEN Some([status |-> "Upload", error_message |-> None,
             openai_tokens_used |-> None])
  ELSE None

\* updateVideoStatus(jobId, status): the update writes status (and
\* updated_at); a third argument is not a parameter of the function.
UpdateVideoStatus(row, status, ok) ==
  IF row = None \/ ~ok THEN row ELSE Some([Val(row) EXCEPT !.status = status])

\* openaiTokensUsed: transcriptData.usage?.total_tokens (line 474).
OpenaiTokensUsed(transcript) ==
  IF transcript.usage = None THEN None ELSE Val(transcript.usage).total_tokens

\* saveVideoMetadataToSupabase: the update writes the metadata, the
\* transcript, the token count and status Processing.
SaveVideoMetadataFailed(row, openaiTokensUsed, ok) ==
  IF row = None \/ ~ok THEN row
  ELSE Some([Val(row) EXCEPT !.status = "Failed",
                             !.openai_tokens_used = openaiTokensUsed])
SaveVideoMetadata(row, openaiTokensUsed, ok) ==
  IF row = None \/ ~ok THEN row
  ELSE Some([Val(row) EXCEPT !.status = "Processing",
                             !.openai_tokens_used = openaiTokensUsed])

\* the records a retry for the same video and user is about (lines 57 and
\* 271-288: "delete old failed record first"): the records of the earlier
\* jobs that have failed.
OldFailedRecords(j) ==
  {k \in Jobs \ {j} : record[k] # None /\ pc[k] = "Failed"}

\* updateOldVideoStatusToUpload(youtubeUrl, userId), lines 277-281: the old
\* records are put back to status Upload.
UpdateOldVideoStatusToUpload(j, ok) ==
  [k \in Jobs |->
     IF k \in OldFailedRecords(j) /\ ok
     THEN Some([Val(record[k]) EXCEPT !.status = "Upload"])
     ELSE record[k]]

\* deleteOldVideoRecords(youtubeUrl, userId), lines 283-287.
DeleteOldVideoRecords(j, ok) ==
  [k \in Jobs |-> IF k \in OldFailedRecords(j) /\ ok THEN None ELSE record[k]]

\* lines 260-346: processSingleVideo is called for a source; when it is a
\* retry, the old records are put back to Upload (line 278), otherwise the
\* record is created and the invocation awaits the notification of status
\* Ingestion.
Invoke(j, rq, isRetry, created) ==
  /\ transcriptionModel' = [transcriptionModel EXCEPT ![j] = rq[1]]
  /\ sourceDuration' = [sourceDuration EXCEPT ![j] = rq[2]]
  /\ IF isRetry
     THEN /\ record' = UpdateOldVideoStatusToUpload(j, created)
          /\ pc' = [pc EXCEPT ![j] = "retry"]
     ELSE /\ record' = [record EXCEPT ![j] = CreateInitialVideoRecord(created)]
          /\ pc' = [pc EXCEPT ![j] = "ingestion"]

\* the invocation of job j was called by the loop of processChannelVideos
\* (line 588), not by the handler of POST /transcribe (line 693).
OfChannel(j) == \E p \in 1..Len(channel.started) : channel.started[p] = j

\* lines 649-671 and 268-346: a request for one of the given sources
\* arrives; it is rejected, or, when it is a retry, the old records are put
\* back to Upload (line 278), or the record is created and the invocation
\* awaits the notification of status Ingestion.
StartFrom(j, requests, retries) ==
  /\ pc[j] = "idle"
  /\ \E body \in Bodies, apiKey \in BOOLEAN, rq \in requests,
        isRetry \in retries, created \in StoreOutcomes :
       LET rejection == Validate(body, apiKey)
       IN  /\ request' = [request EXCEPT ![j] =
                 Some([youtubeUrl |-> body.youtubeUrl, userId |-> body.userId,
                       apiKey |-> apiKey])]
           /\ IF rejection # None
              THEN /\ pc' = [pc EXCEPT ![j] = "Rejected"]
                   /\ httpStatus' = [httpStatus EXCEPT
                                       ![j] = Some(Val(rejection).status)]
                   /\ result' = [result EXCEPT ![j] =
                        Some([ success         |-> FALSE,
                               jobId           |-> None,
                               downloadUrl     |-> None,
                               supabaseUrl     |-> None,
                               transcript      |-> None,
                               error           |-> Some(Val(rejection).error),
                               chunksProcessed |-> None ])]
                   /\ UNCHANGED << transcriptionModel, sourceDuration, record >>
              ELSE /\ Invoke(j, rq, isRetry, created)
                   /\ UNCHANGED << httpStatus, result >>
  /\ UNCHANGED << faults, duration, path, mp3, chunksDir, files, foreignDeletes,
                  splitWindow, mergeWindow, chunkPaths, ex, tr, trResponse,
                  calls, thrown, transcriptData, notified, settled, timer,
                  enrich, channel, fnVars >>

\* a first request for a video.
Start(j) == StartFrom(j, Requests, {FALSE})

\* lines 284-346 of a retry: the old records are deleted, the new record is
\* created and the invocation awaits the notification of status Ingestion.
RetryDelete(j) ==
  /\ pc[j] = "retry"
  /\ \E deleted \in StoreOutcomes, created \in StoreOutcomes :
       record' = [DeleteOldVideoRecords(j, deleted) EXCEPT
                    ![j] = CreateInitialVideoRecord(created)]
  /\ pc' = [pc EXCEPT ![j] = "ingestion"]
  /\ UNCHANGED << inputVars, duration, path, mp3, chunksDir, files,
                  foreignDeletes, splitWindow, mergeWindow, chunkPaths, ex, tr,
                  trResponse, calls, thrown, transcriptData, result,
                  httpStatus, notified, settled, timer, enrich, channel, fnVars >>

\* lines 346-354: updateVideoStatus(jobId, 'Ingestion') returns, whatever
\* its result, and yt-dlp is started.
Ingest(j) ==
  /\ pc[j] = "ingestion"
  /\ \E updated \in StoreOutcomes :
       /\ record' = [record EXCEPT
                       ![j] = UpdateVideoStatus(record[j], "Ingestion", updated)]
       /\ notified' = [notified EXCEPT
                         ![j] = Append(@, "Ingestion")]
  /\ pc' = [pc EXCEPT ![j] = "download"]
  /\ UNCHANGED << inputVars, duration, path, mp3, chunksDir, files,
                  foreignDeletes, splitWindow, mergeWindow, chunkPaths, ex, tr,
                  trResponse, calls, thrown, transcriptData, result,
                  httpStatus, settled, timer, enrich, channel, fnVars >>

\* the errors of the download step: yt-dlp fails, or leaves no MP3 (360).
DownloadErrors == {"Command failed: yt-dlp", "MP3 file was not created"}

\* lines 354-365: yt-dlp exits; the MP3 exists, or the run fails.
Download(j) ==
  /\ pc[j] = "download"
  /\ \/ /\ mp3' = [mp3 EXCEPT ![j] = TRUE]
        /\ pc' = [pc EXCEPT ![j] = "probe"]
        /\ UNCHANGED thrown
     \/ /\ UNCHANGED mp3
        /\ \E error \in DownloadErrors :
             thrown' = [thrown EXCEPT ![j] = Some(error)]
        /\ pc' = [pc EXCEPT ![j] = "failing"]
  /\ UNCHANGED << inputVars, duration, path, chunksDir, files, foreignDeletes,
                  splitWindow, mergeWindow, chunkPaths, ex, tr, trResponse,
                  calls, transcriptData, result, httpStatus, record,
                  notified, settled, timer,
                  enrich, channel, fnVars >>

\* getAudioDuration (lines 91-100): the playing time, or 0 when ffprobe fails.
ProbeOutcomesNegative(j) == {sourceDuration[j], -1}
ProbeOutcomes(j) == {sourceDuration[j], 0}

\* duration >= maxDuration (line 379).
TakesChunkingGt(d, m) == d > MaxDurationOf(m)
TakesChunking(d, m) == d >= MaxDurationOf(m)

\* the third argument of transcribeAudioChunksParallel (line 401).
MergeWindowArg(m) == MaxDurationOf(m)

\* lines 365-390 and 421-432: the probe returns, the path is chosen; on the
\* Direct path the call on the whole file is issued.
Probe(j) ==
  /\ pc[j] = "probe"
  /\ \E d \in ProbeOutcomes(j) :
       /\ duration' = [duration EXCEPT ![j] = d]
       /\ IF TakesChunking(d, transcriptionModel[j])
          THEN /\ path' = [path EXCEPT ![j] = "Chunking"]
               /\ chunksDir' = TRUE
               /\ splitWindow' = [splitWindow EXCEPT
                                    ![j] = MaxDurationOf(transcriptionModel[j])]
               /\ pc' = [pc EXCEPT ![j] = "splitProbe"]
               /\ UNCHANGED calls
          ELSE /\ path' = [path EXCEPT ![j] = "Direct"]
               /\ UNCHANGED << chunksDir, splitWindow >>
               /\ calls' = [calls EXCEPT ![j].source = @ + 1]
               /\ pc' = [pc EXCEPT ![j] = "direct"]
  /\ UNCHANGED << inputVars, mp3, files, foreignDeletes, mergeWindow,
                  chunkPaths, ex, tr, trResponse, thrown, transcriptData,
                  result, httpStatus, record, notified, settled, timer,
                  enrich, channel, fnVars >>

\* the chunk files whose unlink (lines 235-243) fails: each failure is
\* caught and the loop goes on.
UnlinkFailures(j) == IF "fs" \in faults THEN SUBSET OwnFiles(j) ELSE {{}}

\* transcribeAudioChunksParallel once every call has fulfilled (lines
\* 189-255), then lines 404-411 and the await of line 447: the merge, the
\* unlink of the job's own chunk files, the removal of the directory.
FinishChunked(j, transcriptions, chunkDurationSeconds) ==
  /\ transcriptData' = [transcriptData EXCEPT
       ![j] = Some(TranscribeAndMerge(transcriptions, chunkDurationSeconds))]
  /\ \E kept \in UnlinkFailures(j), ok \in FsOutcomes :
       RmSyncTempDir(j, (files \ OwnFiles(j)) \cup kept, ok)
  /\ pc' = [pc EXCEPT ![j] = "upload"]
  /\ UNCHANGED thrown

\* line 116-133: the duration is measured again, the ffmpeg commands are
\* started; with no chunk both Promise.all resolve at once.
SplitProbe(j) ==
  /\ pc[j] = "splitProbe"
  /\ \E d \in ProbeOutcomes(j) :
       LET plan == ChunkPlan(j, d, splitWindow[j])
           w    == MergeWindowArg(transcriptionModel[j])
       IN  /\ chunkPaths' = [chunkPaths EXCEPT ![j] = plan]
           /\ ex' = [ex EXCEPT ![j] = [k \in 1..Len(plan) |-> "spawned"]]
           /\ IF plan = <<>>
              THEN /\ mergeWindow' = [mergeWindow EXCEPT ![j] = w]
                   /\ FinishChunked(j, <<>>, w)
              ELSE /\ pc' = [pc EXCEPT ![j] = "splitting"]
                   /\ UNCHANGED << mergeWindow, transcriptData, chunksDir,
                                   files, foreignDeletes, thrown >>
  /\ UNCHANGED << inputVars, duration, path, mp3, splitWindow, tr, trResponse,
                  calls, result, httpStatus, record, notified, settled, timer,
                  enrich, channel, fnVars >>

\* ffmpeg opens its input and creates its output file (line 127).
ExtractOpen(j, i) ==
  /\ i \in Chunks(j)
  /\ ex[j][i + 1] = "spawned"
  /\ mp3[j]
  /\ chunksDir
  /\ ex' = [ex EXCEPT ![j][i + 1] = "writing"]
  /\ files' = files \cup {<<j, i>>}
  /\ UNCHANGED << inputVars, pc, duration, path, mp3, chunksDir,
                  foreignDeletes, splitWindow, mergeWindow, chunkPaths, tr,
                  trResponse, calls, thrown, transcriptData, result,
                  httpStatus, record, notified, settled, timer,
                  enrich, channel, fnVars >>

\* await Promise.all(promises) (line 132) resolves when every ffmpeg command
\* has exited with status 0.
AnyExtracted(exNew) == \E k \in 1..Len(exNew) : exNew[k] = "done"
AllExtracted(exNew) == \A k \in 1..Len(exNew) : exNew[k] = "done"

\* an ffmpeg command exits with status 0; when it is the last one,
\* Promise.all (line 132) resolves and the transcription calls are issued
\* (lines 162-173).
ExtractSucceed(j, i) ==
  /\ i \in Chunks(j)
  /\ ex[j][i + 1] = "writing"
  /\ LET exNew == [ex[j] EXCEPT ![i + 1] = "done"]
     IN  /\ ex' = [ex EXCEPT ![j] = exNew]
         /\ IF pc[j] = "splitting" /\ AllExtracted(exNew)
            THEN /\ pc' = [pc EXCEPT ![j] = "transcribing"]
                 /\ tr' = [tr EXCEPT ![j] = [k \in 1..Len(exNew) |-> "pending"]]
                 /\ trResponse' = [trResponse EXCEPT
                                     ![j] = [k \in 1..Len(exNew) |-> None]]
                 /\ mergeWindow' = [mergeWindow EXCEPT
                                      ![j] = MergeWindowArg(transcriptionModel[j])]
            ELSE UNCHANGED << pc, tr, trResponse, mergeWindow >>
  /\ UNCHANGED << inputVars, duration, path, mp3, chunksDir, files,
                  foreignDeletes, splitWindow, chunkPaths, calls, thrown,
                  transcriptData, result, httpStatus, record,
                  notified, settled, timer,
                  enrich, channel, fnVars >>

\* an ffmpeg command fails; the first failure rejects Promise.all and the
\* run goes to its catch blocks, the other commands keep running.
ExtractFail(j, i) ==
  /\ i \in Chunks(j)
  /\ ex[j][i + 1] \in {"spawned", "writing"}
  /\ ex' = [ex EXCEPT ![j][i + 1] = "failed"]
  /\ IF pc[j] = "splitting"
     THEN CatchChunking(j, "Command failed: ffmpeg")
     ELSE UNCHANGED << pc, chunksDir, files, foreignDeletes, thrown >>
  /\ UNCHANGED << inputVars, duration, path, mp3, splitWindow, mergeWindow,
                  chunkPaths, tr, trResponse, calls, transcriptData, result,
                  httpStatus, record, notified, settled, timer,
                  enrich, channel, fnVars >>

\* the error a failed chunk call rejects with.
CallError(status) ==
  IF status = "enoent" THEN "ENOENT: no such file or directory"
  ELSE "Connection error."

\* await Promise.all(transcriptionPromises) (line 189) as a call settles:
\* the first rejection throws, the last fulfilment continues to the merge.
OnTranscriptionSettledAllSettled(j, trNew, responsesNew) ==
  IF pc[j] = "transcribing"
     /\ \A k \in 1..Len(trNew) : trNew[k] \in {"ok", "failed", "enoent"}
  THEN LET okIdx == {k \in 1..Len(trNew) : trNew[k] = "ok"}
           first == CHOOSE k \in okIdx : TRUE
       IN  IF okIdx = {}
           THEN CatchChunking(j, "Connection error.") /\ UNCHANGED transcriptData
           ELSE FinishChunked(j, <<Val(responsesNew[first])>>, mergeWindow[j])
  ELSE UNCHANGED << pc, chunksDir, files, foreignDeletes, thrown,
                    transcriptData >>
OnTranscriptionSettledFirst(j, trNew, responsesNew) ==
  IF pc[j] # "transcribing"
  THEN UNCHANGED << pc, chunksDir, files, foreignDeletes, thrown,
                    transcriptData >>
  ELSE IF \E k \in 1..Len(trNew) : trNew[k] \in {"failed", "enoent"}
  THEN /\ CatchChunking(j, "Connection error.")
       /\ UNCHANGED transcriptData
  ELSE IF \E k \in 1..Len(trNew) : trNew[k] = "ok"
  THEN FinishChunked(j, <<Val(responsesNew[CHOOSE k \in 1..Len(trNew) :
                                             trNew[k] = "ok"])>>,
                     mergeWindow[j])
  ELSE UNCHANGED << pc, chunksDir, files, foreignDeletes, thrown,
                    transcriptData >>
OnTranscriptionSettled(j, trNew, responsesNew) ==
  IF pc[j] # "transcribing"
  THEN UNCHANGED << pc, chunksDir, files, foreignDeletes, thrown,
                    transcriptData >>
  ELSE IF \E k \in 1..Len(trNew) : trNew[k] \in {"failed", "enoent"}
  THEN /\ CatchChunking(j, CallError(trNew[CHOOSE k \in 1..Len(trNew) :
                                             trNew[k] \in {"failed", "enoent"}]))
       /\ UNCHANGED transcriptData
  ELSE IF \A k \in 1..Len(trNew) : trNew[k] = "ok"
  THEN FinishChunked(j, [k \in 1..Len(trNew) |-> Val(responsesNew[k])],
                     mergeWindow[j])
  ELSE UNCHANGED << pc, chunksDir, files, foreignDeletes, thrown,
                    transcriptData >>

\* fs.createReadStream(chunkPath) opens the chunk file and the call is sent
\* (lines 165-166), or the file is not there.
TranscribeOpen(j, i) ==
  /\ i \in Chunks(j)
  /\ Len(tr[j]) > i
  /\ tr[j][i + 1] = "pending"
  /\ tr' = [tr EXCEPT ![j][i + 1] = IF <<j, i>> \in files THEN "sent" ELSE "enoent"]
  /\ calls' = [calls EXCEPT ![j].chunks = IF <<j, i>> \in files THEN @ + 1 ELSE @]
  /\ OnTranscriptionSettled(j, tr'[j], trResponse[j])
  /\ UNCHANGED << inputVars, duration, path, mp3, splitWindow, mergeWindow,
                  chunkPaths, ex, trResponse, result, httpStatus, record,
                  notified, settled, timer,
                  enrich, channel, fnVars >>

\* the engine answers a chunk's call (line 165).
TranscribeReturn(j, i) ==
  /\ i \in Chunks(j)
  /\ Len(tr[j]) > i
  /\ tr[j][i + 1] = "sent"
  /\ \E r \in PipelineResponses :
       /\ tr' = [tr EXCEPT ![j][i + 1] = "ok"]
       /\ trResponse' = [trResponse EXCEPT ![j][i + 1] = Some(r)]
  /\ settled' = [settled EXCEPT ![j] = Append(@, i)]
  /\ OnTranscriptionSettled(j, tr'[j], trResponse'[j])
  /\ UNCHANGED << inputVars, duration, path, mp3, splitWindow, mergeWindow,
                  chunkPaths, ex, calls, result, httpStatus, record,
                  notified, timer, enrich, channel, fnVars >>

\* the engine fails a chunk's call.
TranscribeFail(j, i) ==
  /\ i \in Chunks(j)
  /\ Len(tr[j]) > i
  /\ tr[j][i + 1] = "sent"
  /\ tr' = [tr EXCEPT ![j][i + 1] = "failed"]
  /\ OnTranscriptionSettled(j, tr'[j], trResponse[j])
  /\ UNCHANGED << inputVars, duration, path, mp3, splitWindow, mergeWindow,
                  chunkPaths, ex, trResponse, calls, result, httpStatus,
                  record, notified, settled, timer,
                  enrich, channel, fnVars >>

\* the Direct path's single call (lines 425-441) returns or fails.
Direct(j) ==
  /\ pc[j] = "direct"
  /\ \/ \E r \in PipelineResponses :
          /\ transcriptData' = [transcriptData EXCEPT
                                  ![j] = Some(DirectTranscript(r))]
          /\ pc' = [pc EXCEPT ![j] = "upload"]
          /\ UNCHANGED thrown
     \/ /\ UNCHANGED transcriptData
        /\ thrown' = [thrown EXCEPT ![j] = Some(CallError("failed"))]
        /\ pc' = [pc EXCEPT ![j] = "failing"]
  /\ UNCHANGED << inputVars, duration, path, mp3, chunksDir, files,
                  foreignDeletes, splitWindow, mergeWindow, chunkPaths, ex, tr,
                  trResponse, calls, result, httpStatus, record,
                  notified, settled, timer,
                  enrich, channel, fnVars >>

\* line 481: the enrichment is scheduled when the metadata were saved and
\* the transcript uploaded.
SchedulesEnrichmentAlways(metadataSaved, supabaseUrl) == TRUE
SchedulesEnrichment(metadataSaved, supabaseUrl) == metadataSaved /\ supabaseUrl

\* lines 447-524 and 702: the transcript is uploaded; with the upload and the
\* video's metadata there (line 454) the record is updated to Processing and,
\* when that update found the row, the enrichment is scheduled for one
\* second later; the removal of the MP3 is scheduled for one hour later and
\* the response returned.
Upload(j) ==
  /\ pc[j] = "upload"
  /\ \E supabaseUrl \in StoreOutcomes, youtubeMetadata \in MetaOutcomes,
        saved \in StoreOutcomes :
       LET n == Val(transcriptData[j]).chunksProcessed
           saves == youtubeMetadata /\ supabaseUrl
           metadataSaved == saves /\ saved /\ record[j] # None
       IN  /\ result' = [result EXCEPT ![j] =
                 Some([ success         |-> TRUE,
                        jobId           |-> Some(j),
                        downloadUrl     |-> Some(<<"/download/", j, ".mp3">>),
                        supabaseUrl     |-> IF supabaseUrl
                                            THEN Some(<<j, "_transcription.json">>)
                                            ELSE None,
                        transcript      |-> transcriptData[j],
                        error           |-> None,
                        chunksProcessed |-> Some(IF n = 0 THEN 1 ELSE n) ])]
           /\ record' = [record EXCEPT ![j] =
                           IF saves
                           THEN SaveVideoMetadata(
                                  @, OpenaiTokensUsed(Val(transcriptData[j])),
                                  saved)
                           ELSE @]
           /\ enrich' = [enrich EXCEPT ![j].state =
                           IF saves /\ SchedulesEnrichment(metadataSaved, supabaseUrl)
                           THEN "scheduled" ELSE @]
  /\ timer' = [timer EXCEPT ![j] = "scheduled"]
  /\ httpStatus' = [httpStatus EXCEPT
                      ![j] = IF OfChannel(j) THEN @ ELSE Some(200)]
  /\ pc' = [pc EXCEPT ![j] = "Done"]
  /\ UNCHANGED << inputVars, duration, path, mp3, chunksDir, files,
                  foreignDeletes, splitWindow, mergeWindow, chunkPaths, ex, tr,
                  trResponse, calls, thrown, transcriptData, notified, settled,
                  channel, fnVars >>

\* lines 526-548 and 702: the status update returns, the MP3 is unlinked
\* (a failure of the unlink is caught) and the failure returned.
Failing(j) ==
  /\ pc[j] = "failing"
  /\ \E stored \in StoreOutcomes :
       /\ record' = [record EXCEPT ![j] =
                       UpdateVideoStatus(record[j], "Failed", stored)]
       /\ notified' = [notified EXCEPT ![j] = Append(@, "Failed")]
  /\ \E unlinked \in FsOutcomes :
       mp3' = [mp3 EXCEPT ![j] = IF unlinked THEN FALSE ELSE @]
  /\ result' = [result EXCEPT ![j] =
       Some([ success         |-> FALSE,
              jobId           |-> Some(j),
              downloadUrl     |-> None,
              supabaseUrl     |-> None,
              transcript      |-> None,
              error           |-> thrown[j],
              chunksProcessed |-> None ])]
  /\ httpStatus' = [httpStatus EXCEPT
                      ![j] = IF OfChannel(j) THEN @ ELSE Some(200)]
  /\ pc' = [pc EXCEPT ![j] = "Failed"]
  /\ UNCHANGED << inputVars, duration, path, chunksDir, files, foreignDeletes,
                  splitWindow, mergeWindow, chunkPaths, ex, tr, trResponse,
                  calls, thrown, transcriptData,
                  settled, timer, enrich, channel, fnVars >>

\* every step of an invocation after the request was accepted.
JobSteps(j) ==
  \/ Ingest(j)
  \/ Download(j)
  \/ Probe(j)
  \/ SplitProbe(j)
  \/ Direct(j)
  \/ Upload(j)
  \/ Failing(j)
  \/ \E i \in 0..(MaxChunks - 1) :
       \/ ExtractOpen(j, i)
       \/ ExtractSucceed(j, i)
       \/ ExtractFail(j, i)
       \/ TranscribeOpen(j, i)
       \/ TranscribeReturn(j, i)
       \/ TranscribeFail(j, i)

Next == \E j \in Jobs : Start(j) \/ JobSteps(j)

(***************************************************************************)
(* What a successful run leaves behind on the event loop: the timer that   *)
(* removes the MP3 and the enrichment of the saved transcript               *)
(* (processVideoThroughAIFunctions of supabase-utils).                      *)
(***************************************************************************)
\* the Edge Functions, in the order of their calls (lines 742, 749, 756).
EnrichSteps == <<"transcript-segmenter", "embed-video", "embed-segment">>

\* callTranscriptSegmenter, callEmbedVideo, callEmbedSegments return true or
\* false and never throw.
EdgeOutcomes == IF "edge" \in faults THEN {TRUE, FALSE} ELSE {TRUE}

\* if (!...Success) return false (lines 743, 750, 757).
StopsPipelineNever(success) == FALSE
StopsPipeline(success) == ~success

\* lines 515-517: if (fs.existsSync(outputPath)) fs.unlinkSync(outputPath).
TimerUnlinkSkipped(exists, ok) == exists
TimerUnlink(exists, ok) == IF exists /\ ok THEN FALSE ELSE exists

\* lines 513-522: the timer of one hour fires and removes the job's MP3; a
\* failure of the unlink is caught.
CleanupTimer(j) ==
  /\ timer[j] = "scheduled"
  /\ \E ok \in FsOutcomes :
       mp3' = [mp3 EXCEPT ![j] = TimerUnlink(@, ok)]
  /\ timer' = [timer EXCEPT ![j] = "fired"]
  /\ UNCHANGED << inputVars, pc, duration, path, chunksDir, files,
                  foreignDeletes, splitWindow, mergeWindow, chunkPaths, ex, tr,
                  trResponse, calls, thrown, transcriptData, result,
                  httpStatus, record, notified, settled, enrich, channel, fnVars >>

\* lines 486-495 and 742: the timer of one second fires, the record is looked
\* up by job id and, when it is found, the first Edge Function is called.
EnrichBegin(j) ==
  /\ enrich[j].state = "scheduled"
  /\ \E found \in StoreOutcomes :
       enrich' = [enrich EXCEPT ![j].state =
                    IF found /\ record[j] # None THEN "calling" ELSE "ended"]
  /\ UNCHANGED << inputVars, pc, duration, path, mp3, chunksDir, files,
                  foreignDeletes, splitWindow, mergeWindow, chunkPaths, ex, tr,
                  trResponse, calls, thrown, transcriptData, result,
                  httpStatus, record, notified, settled, timer, channel, fnVars >>

\* lines 742-763: the Edge Function that was called returns; on false the
\* function returns false, otherwise the next one is called or, after the
\* third, updateVideoStatus(jobId, 'Ready').
EnrichStep(j) ==
  /\ enrich[j].state = "calling"
  /\ \E success \in EdgeOutcomes :
       LET called == Append(enrich[j].calls,
                            <<EnrichSteps[Len(enrich[j].calls) + 1], success>>)
       IN  enrich' = [enrich EXCEPT ![j] =
             [ calls |-> called,
               state |-> IF StopsPipeline(success) THEN "false"
                         ELSE IF Len(called) = Len(EnrichSteps) THEN "ready"
                         ELSE "calling" ]]
  /\ UNCHANGED << inputVars, pc, duration, path, mp3, chunksDir, files,
                  foreignDeletes, splitWindow, mergeWindow, chunkPaths, ex, tr,
                  trResponse, calls, thrown, transcriptData, result,
                  httpStatus, record, notified, settled, timer, channel, fnVars >>

\* lines 763-766: updateVideoStatus(jobId, 'Ready') returns, whatever its
\* result, and the function returns true.
EnrichReady(j) ==
  /\ enrich[j].state = "ready"
  /\ \E updated \in StoreOutcomes :
       /\ record' = [record EXCEPT
                       ![j] = UpdateVideoStatus(record[j], "Ready", updated)]
       /\ notified' = [notified EXCEPT ![j] = Append(@, "Ready")]
  /\ enrich' = [enrich EXCEPT ![j].state = "true"]
  /\ UNCHANGED << inputVars, pc, duration, path, mp3, chunksDir, files,
                  foreignDeletes, splitWindow, mergeWindow, chunkPaths, ex, tr,
                  trResponse, calls, thrown, transcriptData, result,
                  httpStatus, settled, timer, channel, fnVars >>

\* the callbacks a successful run has scheduled.
DeferredSteps(j) ==
  \/ CleanupTimer(j)
  \/ EnrichBegin(j)
  \/ EnrichStep(j)
  \/ EnrichReady(j)

\* the requests of the runs that are followed beyond their response: one on
\* the Direct path, one on the Chunking path.
DeferredRequests == {<<Whisper1, 1399>>, <<Gpt4oTranscribe, 1400>>}

\* a request, first or retry, for one of these sources.
StartAny(j) == StartFrom(j, DeferredRequests, BOOLEAN)

NextDeferred ==
  \E j \in Jobs :
    StartAny(j) \/ RetryDelete(j) \/ JobSteps(j) \/ DeferredSteps(j)

\* the event loop runs a timer that is due (side channels working).
SpecDeferred ==
  /\ Init /\ [][NextDeferred]_vars
  /\ \A j \in Jobs : WF_vars(CleanupTimer(j))

\* the service with a record store, a metadata retrieval and Edge Functions
\* that may fail.
InitDeferredFaulty ==
  InitPipeline /\ faults = {"store", "meta", "edge"} /\ fnIn = None /\ fnOut = None

SpecDeferredFaulty == InitDeferredFaulty /\ [][NextDeferred]_vars

\* the service when only the retrieval of a video's metadata may fail.
InitMetaFaulty ==
  InitPipeline /\ faults = {"meta"} /\ fnIn = None /\ fnOut = None

SpecMetaFaulty == InitMetaFaulty /\ [][NextDeferred]_vars

(***************************************************************************)
(* processChannelVideos: a request whose youtubeUrl is a channel. The      *)
(* videos of the channel are listed and processSingleVideo is awaited for  *)
(* each of them in turn.                                                    *)
(***************************************************************************)
\* the videos a channel of the model lists: one per job identifier.
MaxVideos == Cardinality(Jobs)

\* getChannelVideos(channelUrl, 10): null, or a list that is not empty (the
\* number of its URLs).
ChannelListings == {None} \cup {Some(n) : n \in 1..MaxVideos}

\* playing time of a channel's video: below and at the limit of
\* gpt-4o-transcribe.
ChannelDurations == {Gpt4oLimit - 1, Gpt4oLimit}

\* what the invocations of the loop leave alone when they are called.
invokeFrame ==
  << request, faults, duration, path, mp3, chunksDir, files, foreignDeletes,
     splitWindow, mergeWindow, chunkPaths, ex, tr, trResponse, calls, thrown,
     transcriptData, result, httpStatus, notified, settled, timer, enrich,
     fnVars >>

\* line 596: if (result.success && result.jobId).
SucceededAlways(res) == TRUE
Succeeded(res) == res.success /\ res.jobId # None

\* lines 596-603: the result of the awaited invocation is counted.
Collect(ch, res) ==
  IF Succeeded(res)
  THEN [ch EXCEPT !.jobIds = Append(@, Val(res.jobId)),
                  !.processedCount = @ + 1,
                  !.i = @ + 1,
                  !.current = None]
  ELSE [ch EXCEPT !.failedCount = @ + 1,
                  !.i = @ + 1,
                  !.current = None]

\* line 583: for (let i = 0; i < videoUrls.length; i++).
ContinuesUnlessFailed(ch) == ch.i < ch.totalVideos /\ ch.failedCount = 0
Continues(ch) == ch.i < ch.totalVideos

\* lines 567-574.
NoVideosResponse ==
  [ success         |-> FALSE,
    isChannel       |-> Some(TRUE),
    jobIds          |-> None,
    videosProcessed |-> None,
    totalVideos     |-> None,
    error |-> Some("No videos found in channel or failed to extract videos") ]

\* lines 613-621.
ChannelResponse(ch) ==
  [ success         |-> TRUE,
    isChannel       |-> Some(TRUE),
    jobIds          |-> Some(ch.jobIds),
    videosProcessed |-> Some(ch.processedCount),
    totalVideos     |-> Some(ch.totalVideos),
    error           |-> IF ch.failedCount > 0
                        THEN Some(<<ch.failedCount, " video(s) failed to process">>)
                        ELSE None ]

\* lines 584-594: the loop of the invocation ch calls processSingleVideo for
\* its next video (isRetry keeps its default, false) and awaits it.
InvokeVideo(j, ch) ==
  /\ pc[j] = "idle"
  /\ \E d \in ChannelDurations, created \in StoreOutcomes :
       Invoke(j, <<ch.transcriptionModel, d>>, FALSE, created)
  /\ channel' = [ch EXCEPT !.current = Some(j), !.started = Append(@, j)]
  /\ UNCHANGED invokeFrame

\* lines 649-679: a request for a channel arrives; it is rejected, or
\* isChannelUrl holds and processChannelVideos asks for the channel's videos.
ChannelStart ==
  /\ channel.state = "none"
  /\ \E userId \in BOOLEAN, apiKey \in BOOLEAN, m \in Models :
       LET rejection == Validate([youtubeUrl |-> TRUE, userId |-> userId],
                                 apiKey)
       IN  channel' =
             IF rejection # None
             THEN [channel EXCEPT
                     !.state = "rejected",
                     !.httpStatus = Some(Val(rejection).status),
                     !.response =
                       Some([ success         |-> FALSE,
                              isChannel       |-> None,
                              jobIds          |-> None,
                              videosProcessed |-> None,
                              totalVideos     |-> None,
                              error |-> Some(Val(rejection).error) ])]
             ELSE [channel EXCEPT !.state = "listing",
                                  !.transcriptionModel = m]
  /\ UNCHANGED << pc, transcriptionModel, sourceDuration, record, invokeFrame >>

\* lines 565-594: getChannelVideos returns; without videos the request is
\* answered, otherwise the loop calls processSingleVideo for the first one.
ChannelList(j) ==
  /\ channel.state = "listing"
  /\ \E videoUrls \in ChannelListings :
       IF videoUrls = None
       THEN /\ channel' = [channel EXCEPT !.state = "done",
                                          !.response = Some(NoVideosResponse),
                                          !.httpStatus = Some(200)]
            /\ UNCHANGED << pc, transcriptionModel, sourceDuration, record,
                            invokeFrame >>
       ELSE InvokeVideo(j, [channel EXCEPT !.state = "running",
                                           !.totalVideos = Val(videoUrls)])

\* lines 588-621 and 687: the awaited invocation returns and is counted; the
\* loop calls processSingleVideo for the next video or, after the last one,
\* the request is answered.
ChannelReturn(j) ==
  /\ channel.state = "running"
  /\ channel.current = Some(j)
  /\ pc[j] \in {"Done", "Failed"}
  /\ LET ch == Collect(channel, Val(result[j]))
     IN  IF Continues(ch)
         THEN \E k \in Jobs : InvokeVideo(k, ch)
         ELSE /\ channel' = [ch EXCEPT !.state = "done",
                                       !.response = Some(ChannelResponse(ch)),
                                       !.httpStatus = Some(200)]
              /\ UNCHANGED << pc, transcriptionModel, sourceDuration, record,
                              invokeFrame >>

NextChannel ==
  \/ ChannelStart
  \/ \E j \in Jobs :
       ChannelList(j) \/ ChannelReturn(j) \/ JobSteps(j) \/ DeferredSteps(j)

\* the service answering a request for a channel.
SpecChannel == Init /\ [][NextChannel]_vars

Spec == Init /\ [][Next]_vars

\* the service in an environment whose file system may refuse a removal.
InitFaulty == InitPipeline /\ faults = {"fs"} /\ fnIn = None /\ fnOut = None

SpecFaulty == InitFaulty /\ [][Next]_vars

\* the event loop runs every callback that is ready: yt-dlp is run with a
\* timeout (line 354), a read stream opens or fails, the store calls behind
\* Upload and Failing return. Nothing bounds ffprobe, ffmpeg or the engine.
SpecLive ==
  /\ Init /\ [][Next]_vars
  /\ \A j \in Jobs :
       /\ WF_vars(Ingest(j))
       /\ WF_vars(Download(j))
       /\ WF_vars(Upload(j))
       /\ WF_vars(Failing(j))
       /\ \A i \in 0..(MaxChunks - 1) : WF_vars(TranscribeOpen(j, i))

(***************************************************************************)
(* splitAudioFile's chunk plan on its own: every measured duration and     *)
(* chunk size of a grid, and the documented 3000 s / 1400 s case.          *)
(***************************************************************************)
MaxSplitDuration == 12
MaxSplitWindow == 5

SplitInputs ==
  [totalDuration : 0..MaxSplitDuration, chunkDurationSeconds : 1..MaxSplitWindow]
    \cup {[totalDuration |-> 3000, chunkDurationSeconds |-> Gpt4oLimit]}

InitSplit == InitPipeline /\ faults = {} /\ fnIn \in {Some(x) : x \in SplitInputs} /\ fnOut = None

ApplySplit ==
  /\ fnOut = None
  /\ fnOut' = Some(ChunkPlan("jobA", Val(fnIn).totalDuration,
                             Val(fnIn).chunkDurationSeconds))
  /\ UNCHANGED << fnIn, pipeVars >>

NextSplit == ApplySplit

SpecSplit == InitSplit /\ [][NextSplit]_vars

(***************************************************************************)
(* transcribeAudioChunksParallel's merge on its own: every list of up to   *)
(* MaxMergeChunks engine responses, under both chunk windows.              *)
(***************************************************************************)
MaxMergeChunks == 3

ResponseLists ==
  UNION {[1..n -> Responses] : n \in 1..MaxMergeChunks}

MergeInputs ==
  [transcriptions : ResponseLists, chunkDurationSeconds : {Gpt4oLimit, WhisperLimit}]

InitMerge == InitPipeline /\ faults = {} /\ fnIn \in {Some(x) : x \in MergeInputs} /\ fnOut = None

ApplyMerge ==
  /\ fnOut = None
  /\ fnOut' = Some(TranscribeAndMerge(Val(fnIn).transcriptions,
                                      Val(fnIn).chunkDurationSeconds))
  /\ UNCHANGED << fnIn, pipeVars >>

NextMerge == ApplyMerge

SpecMerge == InitMerge /\ [][NextMerge]_vars

(***************************************************************************)
(* Claims about the pipeline (Spec).                                       *)
(***************************************************************************)
Finished(j) == pc[j] \in {"Done", "Failed"}

TranscriptionFailed(j) ==
  \E k \in 1..Len(tr[j]) : tr[j][k] \in {"failed", "enoent"}

IsFailure(r) ==
  r # None /\ Val(r).success = FALSE /\ Val(r).error # None
           /\ Val(r).transcript = None

\* C1: if at least one of the N concurrent chunk transcription calls of a
\* run has failed, no merged transcript exists for that run, the run is on
\* its failure path, and once it has returned its response is a failure
\* (success = false, an error message, no transcript), whatever the other
\* calls have done or do later.
C1_FailFast ==
  \A j \in Jobs :
    /\ TranscriptionFailed(j) =>
         /\ transcriptData[j] = None
         /\ pc[j] \in {"failing", "Failed"}
         /\ (Finished(j) => IsFailure(result[j]))
    /\ (pc[j] = "Failed" => IsFailure(result[j]))

\* a run has failed on one chunk's call while another chunk's call succeeded.
C1_Witness ==
  \E j \in Jobs :
    /\ pc[j] = "Failed"
    /\ \E k, l \in 1..Len(tr[j]) : tr[j][k] = "failed" /\ tr[j][l] = "ok"

\* C2: after a run that took the Chunking path has reached Done or Failed,
\* none of its chunk files exists in the working area.
C2_NoChunkFileLeft ==
  \A j \in Jobs :
    (Finished(j) /\ path[j] = "Chunking") => \A f \in files : f[1] # j

\* C3: no step of one invocation deletes a chunk file that belongs to
\* another invocation.
C3_NoForeignDelete ==
  \A d \in foreignDeletes : d[1][1] = d[2]

\* C4: a run on the Chunking path that ends in success returns the merge of
\* the results of every chunk index 0 .. ceil(D/C)-1 of its source, each
\* exactly once and in index order.
C4_CompleteTranscript ==
  \A j \in Jobs :
    (pc[j] = "Done" /\ path[j] = "Chunking") =>
      LET C == MaxDurationOf(transcriptionModel[j])
          n == CHOOSE m \in 0..sourceDuration[j] :
                 /\ m * C >= sourceDuration[j]
                 /\ (m > 0 => (m - 1) * C < sourceDuration[j])
      IN  /\ Len(trResponse[j]) = n
          /\ \A k \in 1..n : trResponse[j][k] # None
          /\ Val(result[j]).success
          /\ Val(result[j]).transcript =
               Some(TranscribeAndMerge([k \in 1..n |-> Val(trResponse[j][k])], C))

\* C7: in a successful result chunksProcessed = 1 implies the Direct path and
\* a transcript that is the engine's response as returned, and a run through
\* the Segmenter and Merger never reports chunksProcessed = 1.
C7_ChunksProcessedOne ==
  \A j \in Jobs :
    pc[j] = "Done" =>
      LET r == Val(result[j])
          t == Val(r.transcript)
      IN  /\ t.chunksProcessed = 1 =>
               /\ path[j] = "Direct"
               /\ \E e \in PipelineResponses : t = DirectTranscript(e)
          /\ path[j] = "Chunking" => t.chunksProcessed # 1

\* C9: the Chunking path is taken exactly when the probed duration is at
\* least the model's threshold (1400 s when the identifier contains
\* "gpt-4o", 3600 s otherwise), the Direct path otherwise, and on the
\* Chunking path that threshold is the chunk window given to splitAudioFile
\* and to transcribeAudioChunksParallel.
C9_ThresholdDecision ==
  \A j \in Jobs :
    LET threshold ==
          IF \E k \in 1..(Len(transcriptionModel[j]) - 5) :
               SubSeq(transcriptionModel[j], k, k + 5)
                 = <<"g", "p", "t", "-", "4", "o">>
          THEN 1400 ELSE 3600
    IN  /\ path[j] = "Chunking" => (duration[j] >= threshold
                                    /\ splitWindow[j] = threshold)
        /\ path[j] = "Direct" => duration[j] < threshold
        /\ (path[j] = "Chunking" /\ pc[j] \in {"transcribing", "upload", "Done"})
             => mergeWindow[j] = threshold
        /\ path[j] = "none" => pc[j] \in {"idle", "Rejected", "ingestion", "download",
                                          "probe", "failing", "Failed"}

\* a whisper-1 run of exactly 3600 s transcribing its chunk, while a
\* gpt-4o run of 1399 s goes the Direct way.
C9_Witness ==
  \E j, k \in Jobs :
    /\ transcriptionModel[j] = Whisper1 /\ duration[j] = 3600
    /\ pc[j] = "transcribing" /\ mergeWindow[j] = 3600
    /\ transcriptionModel[k] = Gpt4oTranscribe /\ duration[k] = 1399
    /\ path[k] = "Direct"

(***************************************************************************)
(* Claims about splitAudioFile's chunk plan (SpecSplit).                   *)
(***************************************************************************)
\* C10: for a source of duration D and a chunk size C the plan has exactly
\* ceil(D / C) chunks, chunk i starts at i*C with nominal window C, indices
\* are strictly increasing, the windows do not overlap and cover [0, D);
\* D = 3000, C = 1400 gives three chunks at 0, 1400 and 2800.
C10_ChunkPlan ==
  fnOut # None =>
    LET D    == Val(fnIn).totalDuration
        C    == Val(fnIn).chunkDurationSeconds
        plan == Val(fnOut)
        n    == Len(plan)
    IN  /\ n * C >= D
        /\ n > 0 => (n - 1) * C < D
        /\ \A k \in 1..n :
             /\ plan[k].i = k - 1
             /\ plan[k].startTime = (k - 1) * C
             /\ plan[k].t = C
        /\ \A k, l \in 1..n :
             k < l => /\ plan[k].i < plan[l].i
                      /\ plan[k].startTime + plan[k].t <= plan[l].startTime
                      /\ plan[k].chunkPath # plan[l].chunkPath
        /\ \A x \in 0..(D - 1) :
             \E k \in 1..n :
               plan[k].startTime <= x /\ x < plan[k].startTime + plan[k].t
        /\ (D = 3000 /\ C = 1400) =>
             [k \in 1..n |-> plan[k].startTime] = <<0, 1400, 2800>>

\* the plan of the 3000 s source with 1400 s chunks has been computed.
C10_Witness ==
  /\ fnOut # None
  /\ Val(fnIn).totalDuration = 3000
  /\ Val(fnIn).chunkDurationSeconds = 1400
  /\ Len(Val(fnOut)) = 3

(***************************************************************************)
(* Claims about the merge of transcribeAudioChunksParallel (SpecMerge).    *)
(***************************************************************************)
\* the engine's segments of the k-th response of a list ([] when left out).
RawSegments(transcriptions, k) ==
  IF transcriptions[k].segments = None
  THEN <<>> ELSE Val(transcriptions[k].segments)

\* the number of segments of the responses before the k-th.
RECURSIVE SegmentsBefore(_, _)
SegmentsBefore(transcriptions, k) ==
  IF k <= 1 THEN 0
  ELSE SegmentsBefore(transcriptions, k - 1)
       + Len(RawSegments(transcriptions, k - 1))

\* C5: the ids of the merged segments are 0, 1, ..., totalSegments-1 without
\* gap or repeat, totalSegments being the sum of the chunks' segment counts;
\* they are assigned in (chunk index, position in chunk) order whatever the
\* chunks' own ids, and a segment with an earlier merged start has a
\* smaller id.
C5_MergedIds ==
  fnOut # None =>
    LET in     == Val(fnIn).transcriptions
        merged == Val(Val(fnOut).segments)
        total  == SegmentsBefore(in, Len(in) + 1)
    IN  /\ Len(merged) = total
        /\ \A p \in 1..Len(merged) : merged[p].id = p - 1
        /\ \A k \in 1..Len(in) :
             \A q \in 1..Len(RawSegments(in, k)) :
               LET g == merged[SegmentsBefore(in, k) + q]
                   l == RawSegments(in, k)[q]
               IN  /\ g.id = SegmentsBefore(in, k) + q - 1
                   /\ g.text = l.text
                   /\ g.end - g.start = l.end - l.start
        /\ \A p, q \in 1..Len(merged) :
             merged[p].start < merged[q].start => merged[p].id < merged[q].id

\* a chunk with local ids 0, 1, 2 followed by a chunk with local ids 0, 1
\* has been merged into ids 0, 1, 2, 3, 4.
C5_Witness ==
  /\ fnOut # None
  /\ Val(fnIn).transcriptions = <<RespThreeSegs, RespTwoSegs>>
  /\ [p \in 1..5 |-> Val(Val(fnOut).segments)[p].id] = <<0, 1, 2, 3, 4>>

\* C6: every segment of chunk i with local start t and end e is in the
\* merged transcript with start t + i*C and end e + i*C, its seek is
\* floor((t + i*C) * 100) whatever the engine's own seek, and its other
\* fields are the engine's.
C6_SegmentRebase ==
  fnOut # None =>
    LET in     == Val(fnIn).transcriptions
        C      == Val(fnIn).chunkDurationSeconds
        merged == Val(Val(fnOut).segments)
    IN  \A k \in 1..Len(in) :
          \A q \in 1..Len(RawSegments(in, k)) :
            LET g == merged[SegmentsBefore(in, k) + q]
                l == RawSegments(in, k)[q]
            IN  /\ g.start = l.start + (k - 1) * C * 1000
                /\ g.end = l.end + (k - 1) * C * 1000
                /\ g.seek * 10 <= g.start
                /\ g.start < (g.seek + 1) * 10
                /\ DOMAIN g = DOMAIN l
                /\ g.text = l.text

\* a second chunk whose engine seek differs from floor(start * 100) has
\* been merged under the 1400 s window.
C6_Witness ==
  /\ fnOut # None
  /\ Len(Val(fnIn).transcriptions) >= 2
  /\ Val(fnIn).transcriptions[2] = RespThreeSegs
  /\ Val(fnIn).chunkDurationSeconds = 1400

RECURSIVE JoinTrimmed(_)
JoinTrimmed(transcriptions) ==
  IF transcriptions = <<>> THEN <<>>
  ELSE LET n    == Len(transcriptions)
           rest == JoinTrimmed(SubSeq(transcriptions, 1, n - 1))
           last == Trim(transcriptions[n].text)
       IN  IF last = <<>> THEN rest
           ELSE IF rest = <<>> THEN last
           ELSE rest \o <<" ">> \o last

\* C11: the merged text is the chunks' trimmed texts in index order with
\* exactly one space between consecutive chunks' words: also with chunks
\* whose text is empty or whitespace it never starts or ends with a
\* separator, never has two consecutive separators, and never joins two
\* chunks' words without one.
C11_MergedText ==
  fnOut # None =>
    LET out == Val(fnOut).text
    IN  /\ out # <<>> => (out[1] # " " /\ out[Len(out)] # " ")
        /\ \A p \in 1..(Len(out) - 1) : ~(out[p] = " " /\ out[p + 1] = " ")
        /\ out = JoinTrimmed(Val(fnIn).transcriptions)

\* the largest i*C + (duration the engine reported for chunk i), in ms.
RECURSIVE MaxReportedEnd(_, _)
MaxReportedEnd(transcriptions, C) ==
  IF transcriptions = <<>> THEN 0
  ELSE LET n        == Len(transcriptions)
           reported == IF transcriptions[n].duration = None
                       THEN 0 ELSE Val(transcriptions[n].duration)
           rest     == MaxReportedEnd(SubSeq(transcriptions, 1, n - 1), C)
           end      == (n - 1) * C * 1000 + reported
       IN  IF end >= rest THEN end ELSE rest

\* C12: the merged duration is the maximum over the chunks i of i*C plus the
\* duration the engine reported for chunk i, for the responses of every
\* supported model; it is not padded to N*C.
C12_MergedDuration ==
  fnOut # None =>
    Val(fnOut).duration =
      Some(MaxReportedEnd(Val(fnIn).transcriptions,
                          Val(fnIn).chunkDurationSeconds))

\* the usage quantity the engine reported with a response, in its own unit.
ReportedUsage(transcription) ==
  IF transcription.usage = None THEN 0
  ELSE IF Val(transcription.usage).type = "duration"
       THEN Val(Val(transcription.usage).seconds)
       ELSE Val(Val(transcription.usage).total_tokens)

RECURSIVE SumReportedUsage(_)
SumReportedUsage(transcriptions) ==
  IF transcriptions = <<>> THEN 0
  ELSE ReportedUsage(Head(transcriptions))
       + SumReportedUsage(Tail(transcriptions))

\* the responses of one run report their usage in one unit (one model and
\* one response format are sent with every call, lines 167-168).
OneUsageUnit(transcriptions) ==
  \A k, l \in 1..Len(transcriptions) :
    (transcriptions[k].usage # None /\ transcriptions[l].usage # None)
      => Val(transcriptions[k].usage).type = Val(transcriptions[l].usage).type

\* C13: the merged usage value is the sum over the chunks of the quantity
\* the engine reported: of the seconds for duration-based usage, of the
\* total_tokens for token-based usage, a chunk without usage counting 0.
C13_UsageSum ==
  (fnOut # None /\ OneUsageUnit(Val(fnIn).transcriptions)) =>
    Val(Val(fnOut).usage).seconds
      = Some(SumReportedUsage(Val(fnIn).transcriptions))

\* three chunks of a token-based run, the middle one without usage, have
\* been merged: 7 + 0 + 7 tokens.
C13_Witness ==
  /\ fnOut # None
  /\ Val(fnIn).transcriptions = <<RespJson, RespSilence, RespJson>>
  /\ Val(Val(fnOut).usage).seconds = Some(14)

(***************************************************************************)
(* Further claims about the pipeline (Spec, SpecFaulty, SpecLive).         *)
(***************************************************************************)
\* C14: a run on the Direct path makes exactly one transcription call, on
\* the whole source file, has no chunk plan and no chunk file, creates no
\* chunk directory (none exists unless some run took the Chunking path), and
\* returns the engine's text, segments, language, duration and usage
\* unchanged with chunksProcessed = 1.
C14_DirectPath ==
  /\ \A j \in Jobs :
       path[j] = "Direct" =>
         /\ calls[j] = [source |-> 1, chunks |-> 0]
         /\ chunkPaths[j] = <<>> /\ ex[j] = <<>> /\ tr[j] = <<>>
         /\ \A f \in files : f[1] # j
         /\ pc[j] = "Done" =>
              /\ Val(result[j]).success
              /\ Val(result[j]).chunksProcessed = Some(1)
              /\ \E e \in PipelineResponses :
                   Val(result[j]).transcript =
                     Some([ text |-> e.text, segments |-> e.segments,
                            language |-> e.language, duration |-> e.duration,
                            usage |-> e.usage, chunksProcessed |-> 1 ])
  /\ (\A j \in Jobs : path[j] # "Chunking") => (~chunksDir /\ files = {})

\* a gpt-4o run of 1399 s is Done on the Direct path with the engine's
\* untrimmed text and the engine's segments.
C14_Witness ==
  \E j \in Jobs :
    /\ pc[j] = "Done" /\ path[j] = "Direct" /\ duration[j] = 1399
    /\ Val(Val(result[j]).transcript).text = <<" ", "a", " ", "b">>
    /\ Val(Val(result[j]).transcript).segments = RespTwoSegs.segments

C16_FailureCleanup ==
  \A j \in Jobs :
    pc[j] = "Failed" =>
      /\ Val(result[j]).success = FALSE
      /\ Val(result[j]).jobId = Some(j)
      /\ Val(result[j]).error \notin {None, Some("")}
      /\ Val(result[j]).transcript = None
      /\ ~mp3[j]
      /\ \A f \in files : f[1] # j

\* C17: when a run has failed and its record exists, the record's status is
\* Failed and its stored error message is the message of the response.
C17_FailedRecord ==
  \A j \in Jobs :
    (pc[j] = "Failed" /\ record[j] # None) =>
      /\ Val(record[j]).status = "Failed"
      /\ Val(record[j]).error_message = Val(result[j]).error

\* C18: every invocation that has started its download eventually reaches
\* Done or Failed, also when an external call never returns.
C18_Terminates ==
  \A j \in Jobs : (pc[j] = "download") ~> (pc[j] \in {"Done", "Failed"})

\* the errors of the pipeline's own steps.
PrimaryErrors ==
  { "Command failed: yt-dlp", "MP3 file was not created",
    "Command failed: ffmpeg", "Connection error.",
    "ENOENT: no such file or directory" }

C20_DocumentedRequest ==
  \A j \in Jobs :
    (/\ pc[j] \in {"Done", "Failed", "Rejected"}
     /\ Val(request[j]).youtubeUrl
     /\ Val(request[j]).apiKey
     /\ thrown[j] = None) =>
      /\ Val(result[j]).success
      /\ Val(result[j]).jobId # None
      /\ Val(result[j]).downloadUrl # None
      /\ Val(result[j]).transcript # None

(***************************************************************************)
(* Claims about the order of the pipeline's steps (Spec).                  *)
(***************************************************************************)
\* C22: the extractions of a run are all started together; the
\* transcription calls exist only once every extraction has exited
\* successfully, and there is then one call per planned chunk; a run with a
\* failed extraction has no chunk list: no transcription call is prepared or
\* sent, no transcript is produced, and the run is on its failure path.
C22_SplitAllOrNothing ==
  \A j \in Jobs :
    /\ (pc[j] \in {"splitting", "transcribing"} \/ ex[j] # <<>>)
         => Len(ex[j]) = Len(chunkPaths[j])
    /\ tr[j] # <<>> =>
         /\ Len(tr[j]) = Len(chunkPaths[j])
         /\ \A k \in 1..Len(ex[j]) : ex[j][k] = "done"
    /\ (\E k \in 1..Len(ex[j]) : ex[j][k] = "failed") =>
         /\ tr[j] = <<>>
         /\ calls[j].chunks = 0
         /\ transcriptData[j] = None
         /\ pc[j] \in {"failing", "Failed"}

\* of two extractions one has exited successfully and the other failed: the
\* run has failed without a transcription call.
C22_Witness ==
  \E j \in Jobs :
    /\ ex[j] = <<"done", "failed">>
    /\ tr[j] = <<>>
    /\ calls[j].chunks = 0
    /\ pc[j] = "Failed"

\* C23: whatever the order in which the transcription calls of a run are
\* fulfilled, the merged text is the chunks' texts in ascending chunk index
\* order, and the merged segments are the chunks' segments in ascending
\* chunk index order, each shifted by the time offset of the chunk file its
\* call was made on.
C23_IndexOrderMerge ==
  \A j \in Jobs :
    (path[j] = "Chunking" /\ transcriptData[j] # None /\ tr[j] # <<>>) =>
      LET in   == [k \in 1..Len(tr[j]) |-> Val(trResponse[j][k])]
          segs == Val(Val(transcriptData[j]).segments)
      IN  /\ Val(transcriptData[j]).text = JoinTrimmed(in)
          /\ Len(segs) = SegmentsBefore(in, Len(in) + 1)
          /\ \A k \in 1..Len(in) :
               \A q \in 1..Len(RawSegments(in, k)) :
                 LET g == segs[SegmentsBefore(in, k) + q]
                     l == RawSegments(in, k)[q]
                 IN  /\ g.text = l.text
                     /\ g.start = l.start + (k - 1) * mergeWindow[j] * 1000
                     /\ g.end = l.end + (k - 1) * mergeWindow[j] * 1000

\* the call of chunk 1 was fulfilled before the call of chunk 0, with
\* different answers, and the transcript starts with chunk 0's text.
C23_Witness ==
  \E j \in Jobs :
    /\ pc[j] = "Done"
    /\ settled[j] = <<1, 0>>
    /\ trResponse[j] = <<Some(RespThreeSegs), Some(RespTwoSegs)>>
    /\ Val(transcriptData[j]).text = <<"b", " ", "a", " ", "b">>

\* the step of C24 taken by job j removes a chunk file.
RemovesChunkFile(j) == pc'[j] # pc[j] /\ files \ files' # {}

\* C24: a transcription call of a run is sent (or has settled) only when
\* every extraction of that run has exited successfully, and a step of a run
\* removes chunk files only when the run fails or when every transcription
\* call of the run has been fulfilled.
C24_StepOrder ==
  /\ [](\A j \in Jobs :
          (calls[j].chunks > 0
           \/ \E k \in 1..Len(tr[j]) : tr[j][k] # "pending")
            => /\ ex[j] # <<>>
               /\ \A k \in 1..Len(ex[j]) : ex[j][k] = "done")
  /\ [][\A j \in Jobs :
          RemovesChunkFile(j) =>
            \/ pc'[j] = "failing"
            \/ /\ pc'[j] = "upload"
               /\ \A k \in 1..Len(tr'[j]) : tr'[j][k] = "ok"]_vars

\* a run of two chunks has had both calls fulfilled and has removed its
\* chunk files.
C24_Witness ==
  \E j \in Jobs :
    /\ pc[j] = "Done"
    /\ calls[j].chunks = 2
    /\ tr[j] = <<"ok", "ok">>
    /\ ex[j] = <<"done", "done">>
    /\ \A i \in Chunks(j) : <<j, i>> \notin files

\* C25: splitAudioFile is entered only for a source longer than the chunk
\* window: a probed duration less than or equal to the threshold of the
\* model leads to the Direct path.
C25_DirectAtThreshold ==
  \A j \in Jobs :
    LET C == IF transcriptionModel[j] = Whisper1 THEN 3600 ELSE 1400
    IN  /\ (path[j] = "Chunking"
            \/ pc[j] \in {"splitProbe", "splitting", "transcribing"})
             => duration[j] > C
        /\ (path[j] # "none" /\ duration[j] <= C) => path[j] = "Direct"


\* C27: the notifications of a job's status are fire-and-forget: while the
\* notification of status Ingestion is outstanding the download can start,
\* and no status is notified twice.
C27_FireAndForget ==
  \A j \in Jobs :
    /\ pc[j] = "ingestion" => ENABLED Download(j)
    /\ \A p, q \in 1..Len(notified[j]) :
         notified[j][p] = notified[j][q] => p = q

(***************************************************************************)
(* Claims about what a run leaves behind (SpecDeferred,                    *)
(* SpecDeferredFaulty).                                                    *)
(***************************************************************************)
\* C21: when a successful run has returned its response and until its timer
\* fires, the job's MP3 exists; the timer eventually fires and the MP3 is
\* then gone; the timer's step touches no other job's MP3, no chunk file and
\* not the chunk directory.
C21_SourceRetention ==
  /\ [](\A j \in Jobs :
          (pc[j] = "Done" /\ timer[j] = "scheduled") =>
            /\ mp3[j]
            /\ Val(result[j]).downloadUrl = Some(<<"/download/", j, ".mp3">>))
  /\ \A j \in Jobs : (pc[j] = "Done") ~> (timer[j] = "fired" /\ ~mp3[j])
  /\ [][\A j \in Jobs :
          (timer[j] = "scheduled" /\ timer'[j] = "fired") =>
            /\ \A k \in Jobs \ {j} : mp3'[k] = mp3[k]
            /\ files' = files
            /\ chunksDir' = chunksDir]_vars

\* one run's timer has fired and its MP3 is gone, while the MP3 of another
\* successful run, whose timer has not fired, is still there.
C21_Witness ==
  \E j, k \in Jobs :
    /\ pc[j] = "Done" /\ timer[j] = "fired" /\ ~mp3[j]
    /\ pc[k] = "Done" /\ timer[k] = "scheduled" /\ mp3[k]

\* C28: the enrichment of a job exists only once the job's run has returned
\* a successful response with the transcript and the record has been saved
\* with status Processing; whatever the enrichment's steps return, the
\* response, the transcript and the pipeline's state stay as they were and
\* the record's status is never Failed.
C28_EnrichmentDecoupled ==
  /\ [](\A j \in Jobs :
          enrich[j].state # "none" =>
            /\ pc[j] = "Done"
            /\ transcriptData[j] # None
            /\ Val(result[j]).success
            /\ Val(result[j]).transcript = transcriptData[j]
            /\ Val(result[j]).supabaseUrl # None
            /\ record[j] # None
            /\ Val(record[j]).status \in {"Processing", "Ready"}
            /\ Val(record[j]).status = "Ready" => enrich[j].state = "true")
  /\ [][\A j \in Jobs :
          (enrich[j].state # "none" /\ enrich'[j] # enrich[j]) =>
            /\ result' = result
            /\ httpStatus' = httpStatus
            /\ transcriptData' = transcriptData
            /\ pc' = pc
            /\ mp3' = mp3]_vars

\* the second Edge Function has failed for a job: its response is the
\* successful one and its record is still Processing.
C28_Witness ==
  \E j \in Jobs :
    /\ enrich[j].state = "false"
    /\ enrich[j].calls = <<<<"transcript-segmenter", TRUE>>, <<"embed-video", FALSE>>>>
    /\ Val(result[j]).success
    /\ Val(result[j]).transcript = transcriptData[j]
    /\ Val(record[j]).status = "Processing"

\* C29: the Edge Functions are called in the order transcript-segmenter,
\* embed-video, embed-segment; every call but the last one made has
\* succeeded, so nothing is called after a failure; the function has
\* returned false exactly when its last call failed, and once it has, it
\* does nothing more; status Ready is notified and written only after three
\* successful calls.
C29_EnrichmentOrder ==
  /\ [](\A j \in Jobs :
          LET c == enrich[j].calls
          IN  /\ Len(c) <= 3
              /\ \A p \in 1..Len(c) :
                   c[p][1] = <<"transcript-segmenter", "embed-video",
                               "embed-segment">>[p]
              /\ \A p \in 1..(Len(c) - 1) : c[p][2]
              /\ enrich[j].state = "false" <=> (c # <<>> /\ ~c[Len(c)][2])
              /\ (\/ enrich[j].state \in {"ready", "true"}
                  \/ \E p \in 1..Len(notified[j]) : notified[j][p] = "Ready"
                  \/ (record[j] # None /\ Val(record[j]).status = "Ready"))
                   => (Len(c) = 3 /\ \A p \in 1..3 : c[p][2]))
  /\ [][\A j \in Jobs :
          enrich[j].state = "false" =>
            (enrich'[j] = enrich[j] /\ record'[j] = record[j])]_vars

\* one job's enrichment has returned true with the record Ready, another
\* job's has returned false after the failure of embed-video.
C29_Witness ==
  \E j, k \in Jobs :
    /\ enrich[j].state = "true"
    /\ Len(enrich[j].calls) = 3
    /\ Val(record[j]).status = "Ready"
    /\ enrich[k].state = "false"
    /\ Len(enrich[k].calls) = 2

\* the place of a status on the way Upload -> Ingestion -> Processing ->
\* Ready, with Failed after all of them.
StatusRank(status) ==
  CASE status = "Upload" -> 0
    [] status = "Ingestion" -> 1
    [] status = "Processing" -> 2
    [] status = "Ready" -> 3
    [] status = "Failed" -> 4

\* what C30 has in common with its amended form: the status is one of the
\* five, a record starts at Upload, and a run that has started its download
\* and not yet saved its transcript has status Ingestion.
StatusDomainAndStart ==
  /\ [](\A k \in Jobs :
          record[k] # None =>
            /\ Val(record[k]).status
                 \in {"Upload", "Ingestion", "Processing", "Ready", "Failed"}
            /\ pc[k] \in {"retry", "ingestion"} => Val(record[k]).status = "Upload"
            /\ pc[k] \in {"download", "probe", "splitProbe", "splitting",
                          "transcribing", "direct", "upload", "failing"}
                 => Val(record[k]).status = "Ingestion")
  /\ [][\A k \in Jobs :
          (record[k] = None /\ record'[k] # None)
            => Val(record'[k]).status = "Upload"]_vars

C36_ChunksProcessedAgree ==
  \A j \in Jobs :
    pc[j] = "Done" =>
      LET top    == Val(Val(result[j]).chunksProcessed)
          inner  == Val(Val(result[j]).transcript).chunksProcessed
          merged == IF path[j] = "Direct" THEN 1 ELSE Len(trResponse[j])
      IN  top = inner /\ inner = merged

\* C37: a run on the Chunking path whose first probe gave D plans
\* ceil(D / C) >= 1 chunks, so a successful Chunking run has merged at least
\* one chunk.
C37_ChunkCountMatchesDecision ==
  \A j \in Jobs :
    (path[j] = "Chunking" /\ pc[j] \in {"splitting", "transcribing", "upload", "Done"})
      => LET C == IF transcriptionModel[j] = Whisper1 THEN 3600 ELSE 1400
         IN  /\ Len(chunkPaths[j]) >= 1
             /\ (Len(chunkPaths[j]) - 1) * C < duration[j]
             /\ duration[j] <= Len(chunkPaths[j]) * C
             /\ pc[j] = "Done" =>
                  Val(transcriptData[j]).chunksProcessed = Len(chunkPaths[j])

(***************************************************************************)
(* Claims about what is persisted with the record (Spec, SpecMetaFaulty,   *)
(* SpecDeferredFaulty).                                                    *)
(***************************************************************************)
\* the tokens a token-based response reports.
TokensOf(response) == Val(Val(response.usage).total_tokens)

RECURSIVE SumTokens(_)
SumTokens(responses) ==
  IF responses = <<>> THEN 0
  ELSE TokensOf(Val(Head(responses))) + SumTokens(Tail(responses))

\* the engine answered with token-based usage.
TokenBased(response) ==
  response.usage # None /\ Val(response.usage).total_tokens # None

\* C38: when every answer of the engine in a run carried token-based usage,
\* the token count saved with the record is the number of tokens the engine
\* reported: the answer's total_tokens on the Direct path, the sum of the
\* chunks' total_tokens on the Chunking path.
C38_TokensPersisted ==
  \A j \in Jobs :
    (pc[j] = "Done" /\ record[j] # None
     /\ Val(record[j]).status \in {"Processing", "Ready"}) =>
      /\ path[j] = "Direct" =>
           \A r \in PipelineResponses :
             (TokenBased(r) /\ Val(transcriptData[j]) = DirectTranscript(r))
               => Val(record[j]).openai_tokens_used = Some(TokensOf(r))
      /\ (path[j] = "Chunking" /\ trResponse[j] # <<>>
          /\ \A k \in 1..Len(trResponse[j]) : TokenBased(Val(trResponse[j][k])))
           => Val(record[j]).openai_tokens_used = Some(SumTokens(trResponse[j]))

\* C34: a run that has returned success and has no enrichment scheduled
\* (so that no later step of the job writes its status) has its record, when
\* there is one, in status Processing or Ready, also when the video's
\* metadata could not be retrieved.
C34_SuccessLeavesProcessing ==
  \A j \in Jobs :
    (pc[j] = "Done" /\ record[j] # None /\ enrich[j].state = "none") =>
      Val(record[j]).status \in {"Processing", "Ready"}

\* C35: a run whose response is a failure has no enrichment; a run whose
\* response is a success has never notified Failed and its record is not
\* Failed; a run that has notified Failed is over; and no step writes
\* Ingestion, Processing or Ready over Failed.
C35_FailedTerminal ==
  /\ [](\A j \in Jobs :
          /\ (result[j] # None /\ ~Val(result[j]).success) =>
               (enrich[j].state = "none" /\ timer[j] = "none")
          /\ (result[j] # None /\ Val(result[j]).success) =>
               /\ \A p \in 1..Len(notified[j]) : notified[j][p] # "Failed"
               /\ record[j] # None => Val(record[j]).status # "Failed"
          /\ (\E p \in 1..Len(notified[j]) : notified[j][p] = "Failed") =>
               (pc[j] = "Failed" /\ enrich[j].state = "none"))
  /\ [][\A j \in Jobs :
          (record[j] # None /\ Val(record[j]).status = "Failed"
           /\ record'[j] # None) =>
            Val(record'[j]).status \notin {"Ingestion", "Processing", "Ready"}]_vars

\* one run has failed, with its record Failed and no enrichment, while
\* another run's enrichment has brought its record to Ready.
C35_Witness ==
  \E j, k \in Jobs :
    /\ pc[j] = "Failed"
    /\ record[j] # None
    /\ Val(record[j]).status = "Failed"
    /\ enrich[j].state = "none"
    /\ pc[k] = "Done"
    /\ enrich[k].state = "true"
    /\ record[k] # None
    /\ Val(record[k]).status = "Ready"

(***************************************************************************)
(* Claims about the processing of a channel (SpecChannel).                 *)
(***************************************************************************)
\* the invocation of job j has been called and has not returned.
InProgress(j) == pc[j] \notin {"idle", "Rejected", "Done", "Failed"}

\* C31: of the invocations a channel request has started at most one is in
\* progress; an invocation is started only when all the earlier ones have
\* returned; while the loop runs, it is awaiting the invocation of its next
\* video, whatever the results of the earlier ones; and when the request is
\* answered every video of the listing has been started and has returned.
C31_Sequential ==
  LET started == channel.started
  IN  /\ Cardinality({j \in Jobs : OfChannel(j) /\ InProgress(j)}) <= 1
      /\ \A p, q \in 1..Len(started) :
           /\ p < q => pc[started[p]] \in {"Done", "Failed"}
           /\ p # q => started[p] # started[q]
      /\ channel.state = "running" =>
           /\ Len(started) = channel.i + 1
           /\ Len(started) <= channel.totalVideos
           /\ channel.current = Some(started[Len(started)])
      /\ (channel.state = "done" /\ channel.totalVideos > 0) =>
           /\ Len(started) = channel.totalVideos
           /\ \A p \in 1..Len(started) : pc[started[p]] \in {"Done", "Failed"}

\* a channel of two videos was answered: the first video failed, the second
\* one was processed after it.
C31_Witness ==
  /\ channel.state = "done"
  /\ Len(channel.started) = 2
  /\ pc[channel.started[1]] = "Failed"
  /\ pc[channel.started[2]] = "Done"

\* the invocation of job j returned success.
RunSucceeded(j) ==
  pc[j] = "Done" /\ result[j] # None /\ Val(result[j]).success

\* C32: the answer to a channel request that found videos has success true,
\* videosProcessed plus the number of failed videos equal to totalVideos,
\* jobIds equal to the job identifiers of the videos that succeeded, in the
\* order of processing, and an error exactly when a video failed; the answer
\* to one that found no video has success false and no jobIds.
C32_ChannelResponse ==
  channel.state = "done" =>
    LET r == Val(channel.response)
        started == channel.started
        failed == {p \in 1..Len(started) : ~RunSucceeded(started[p])}
    IN  IF channel.totalVideos = 0
        THEN ~r.success /\ r.jobIds = None /\ started = <<>>
        ELSE /\ r.success
             /\ r.totalVideos = Some(channel.totalVideos)
             /\ Val(r.videosProcessed) + Cardinality(failed)
                  = Val(r.totalVideos)
             /\ r.jobIds = Some(SelectSeq(started, RunSucceeded))
             /\ Len(Val(r.jobIds)) = Val(r.videosProcessed)
             /\ (r.error # None) <=> (failed # {})

\* a channel of two videos was answered after both videos failed: success
\* is true, jobIds is empty and the error is present.
C32_Witness ==
  /\ channel.state = "done"
  /\ channel.totalVideos = 2
  /\ \A j \in Jobs : pc[j] = "Failed"
  /\ Val(channel.response).success
  /\ Val(channel.response).jobIds = Some(<<>>)
  /\ Val(channel.response).videosProcessed = Some(0)
  /\ Val(channel.response).error # None

(***************************************************************************)
(* Further claims about the merge (SpecMerge).                             *)
(***************************************************************************)
\* C26: the language of the merged transcript is the language the engine
\* reported for chunk 0, whatever the other chunks report, and "unknown"
\* exactly when chunk 0 reports none.
C26_LanguageOfFirstChunk ==
  fnOut # None =>
    LET first == Val(fnIn).transcriptions[1].language
        out   == Val(fnOut).language
    IN  /\ first # None => out = first
        /\ first = None <=> out = Some("unknown")

\* a french chunk 0 followed by an english chunk and a chunk without
\* language has been merged.
C26_Witness ==
  /\ fnOut # None
  /\ Val(fnIn).transcriptions = <<RespThreeSegs, RespTwoSegs, RespJson>>
  /\ Val(fnOut).language = Some("french")

====
